---- MODULE Spec2Model ----
(***************************************************************************)
(* A model of KeyValueStore (src/kvs.py): a key-value store kept in one    *)
(* SQLite table, guarded inside a process by a handle mutex and across     *)
(* processes by a file lock.                                               *)
(*                                                                         *)
(* Two state machines share the module:                                    *)
(*   Spec      one live handle, worker threads calling create / read /     *)
(*             delete on it, the two periodic loops and the clock;         *)
(*   SpecOpen  several processes, each with threads calling open().        *)
(*                                                                         *)
(* Strings are sequences of one-character strings, so that the way the     *)
(* code splices keys and values into SQL text can be computed.             *)
(* Line 245 of src/kvs.py reads "with self._lock:)"; it is modelled as     *)
(* "with self._lock:".                                                     *)
(***************************************************************************)
EXTENDS Integers, Sequences, FiniteSets, TLC

\* ------------------------------------------------------------------ bounds
\* Calls to create/read/delete that a thread makes when it is the only caller.
MaxCalls == 3
\* Calls that each thread makes when two threads call at the same time.
MaxPar == 1
\* The clock runs from 0 to MaxTime.
MaxTime == 1

\* Calls to open() that the first thread of the first process makes; every other
\* thread that calls open() calls it once.
MaxOpens == 2

Threads == {"t1", "t2"}
Procs == {"p1", "p2"}
None == "None"

\* What the callers of open() pass.  The empty directory stands for None and '':
\* both are false in "if file_directory".
FileNames == {<<"f">>, <<"g">>}
FileDirs == {<<>>, <<".", "/">>}
_DEFAULT_DIRECTORY == <<>>

\* Keys the callers pass: numbers in canonical form (7, 70), a number with a
\* leading zero, a word, and a number one character longer than _KEY_SIZE_LIMIT.
Keys == {<<"7">>, <<"0", "7">>, <<"7", "0">>, <<"k">>, <<"7", "7", "7">>}
\* JSON values the callers pass (all JSON strings): a, ' and '', and one whose
\* JSON text is _VALUE_SIZE_LIMIT characters long.
Values == {<<"a">>, <<"a", "a">>, <<"'">>, <<"'", "'">>, <<"a", "a", "a">>}
\* -1 is "infinite"; a row with ttl 0 has expired as soon as the clock has moved.
Ttls == {-1, 0}
Digits == {"0", "7"}


\* ------------------------------------------------------- program constants
\* The limits of lines 12-16, scaled down.  The file's size is counted in
\* pages (see _db_size); the limit is 1024 * 1024 * 1024 bytes in the source.
_DB_SIZE_LIMIT == 2
\* 32 and 16 * 1024 in the source.
_KEY_SIZE_LIMIT == 2
_VALUE_SIZE_LIMIT == 5
\* 10000 and 15 * 1024 * 1025 in the source.
_MAX_UNCOMMITTED_TRANSACTIONS_ALLOWED == 2
_MAX_UNCOMMITTED_SIZE_ALLOWED == 12

\* ------------------------------------------------------------- exceptions
ConcurrentAccessCode == 10
KeyTooLargeCode == 101
ValueTooLargeCode == 102
CapacityExceededCode == 103
DuplicateKeyCode == 201
KeyNotFoundCode == 202
\* How a call ends: it returns, or raises Exception(message, code), or raises
\* one of sqlite3's own exceptions, which carry no code.
Ok == [exc |-> "none", code |-> 0]
Raise(code) == [exc |-> "Exception", code |-> code]
OperationalError == [exc |-> "sqlite3.OperationalError", code |-> 0]
IntegrityError == [exc |-> "sqlite3.IntegrityError", code |-> 0]
ConcurrentAccessError == Raise(ConcurrentAccessCode)
KeyTooLargeError == Raise(KeyTooLargeCode)
ValueTooLargeError == Raise(ValueTooLargeCode)
CapacityExceededError == Raise(CapacityExceededCode)
DuplicateKeyError == Raise(DuplicateKeyCode)
KeyNotFoundError == Raise(KeyNotFoundCode)

VARIABLES
    table,                     \* the rows the connection sees (uncommitted included)
    disk,                      \* the rows as of the last commit
    page_count,                \* PRAGMA PAGE_COUNT of the connection
    now,                       \* time.time()
    lock,                      \* self._lock: the thread or loop holding it, or None
    pc,                        \* each worker thread's position
    call,                      \* each worker thread's call in progress
    tmp,                       \* each worker thread's loaded counter value
    uncommitted_transactions,  \* self._uncommitted_transactions
    uncommitted_size,          \* self._uncommitted_size
    workload,                  \* the keys, values and ttls this run's callers pass
    last,                      \* history: each thread's latest call that returned or raised
    ncalls,                    \* history: calls each thread has started so far
    capacity_hit,              \* history: a create has raised CapacityExceeded
    epoch,                     \* history: per key, INSERTs and DELETEs done by create/delete
    in_transaction,            \* the connection has begun a transaction and not committed it
    periodic,                  \* per background thread: "running" or "ended"
    crashed,                   \* the process was terminated uncleanly
    pending                    \* history: the mutations done while no commit has run yet

\* The state of the processes that call open().
VARIABLES
    _class_lock,               \* per process: the thread inside "with cls._class_lock"
    _all_objects,              \* per process: file address -> the handle registered
    system_lock,               \* per file: the FileLock object holding <file>.lock
    data_file,                 \* per file: "absent", "empty" or "table"
    opc,                       \* per process and thread: its position in open()
    ocall,                     \* per process and thread: the file address of its call
    oresult,                   \* per process and thread: how its latest open() ended
    nopens,                    \* per process and thread: calls to open() so far
    built,                     \* per process: KeyValueStore objects constructed
    returned,                  \* history: per process and file, the handles returned
    acquired,                  \* history: per process and file, lock acquisitions
    started                    \* history: per process and file, threads started

hvars == <<table, disk, page_count, now, lock, pc, call, tmp, uncommitted_transactions,
           uncommitted_size, workload, last, ncalls, capacity_hit, epoch,
           in_transaction, periodic, crashed, pending>>

ovars == <<_class_lock, _all_objects, system_lock, data_file, opc, ocall, oresult,
           nopens, built, returned, acquired, started>>

vars == <<hvars, ovars>>

\* ------------------------------------------------------------ JSON and SQL
\* json.dumps of a JSON string: the text between double quotes.
json_dumps(v) == <<"\"">> \o v \o <<"\"">>

\* json.loads of the text of a JSON string.
json_loads(s) == SubSeq(s, 2, Len(s) - 1)

\* What SQLite reads from '<s>' when s is spliced between single quotes: two
\* quotes are one quote character; a lone quote ends the literal early and what
\* follows it breaks the statement.
RECURSIVE SqlString(_)
SqlString(s) ==
    IF s = <<>> THEN [err |-> FALSE, text |-> <<>>]
    ELSE IF Head(s) # "'"
    THEN LET r == SqlString(Tail(s))
         IN  [err |-> r.err, text |-> IF r.err THEN <<>> ELSE <<Head(s)>> \o r.text]
    ELSE IF Len(s) >= 2 /\ s[2] = "'"
    THEN LET r == SqlString(SubSeq(s, 3, Len(s)))
         IN  [err |-> r.err, text |-> IF r.err THEN <<>> ELSE <<"'">> \o r.text]
    ELSE [err |-> TRUE, text |-> <<>>]

\* The decimal text of a number written with leading zeros.
RECURSIVE Canonical(_)
Canonical(s) ==
    IF Len(s) > 1 /\ Head(s) = "0" THEN Canonical(Tail(s)) ELSE s

\* What SQLite reads from <s> spliced bare into "WHERE key=<s>": digits are an
\* integer literal, compared with the TEXT column as the integer's decimal text;
\* a word is a column name, and the table has no such column.
SqlBare(s) ==
    IF \A i \in 1..Len(s) : s[i] \in Digits
    THEN [err |-> FALSE, text |-> Canonical(s)]
    ELSE [err |-> TRUE, text |-> <<>>]

\* ---------------------------------------------------------------- the table
Row(k, v, ts, ttl) == [key |-> k, value |-> v, timestamp |-> ts, ttl |-> ttl]

\* SELECT * FROM key_value_store WHERE key = '<k>'
Select(tbl, k) == {r \in tbl : r.key = SqlString(k).text}

Expired(r, t) == r.ttl # -1 /\ t - r.timestamp > r.ttl

\* PRAGMA PAGE_COUNT * PRAGMA PAGE_SIZE, in units of one page: page_size is
\* fixed once the file exists.  A row takes one page; the pages of
\* deleted rows stay in the file (on its free list) until a VACUUM.
_db_size == page_count

PagesAfterInsert(tbl) ==
    IF Cardinality(tbl) + 1 > page_count THEN page_count + 1 ELSE page_count

\* ------------------------------------------------------------------ history
NoCall == [op |-> None]

\* Python's None where a call passes no value or returns none: a sequence, as
\* the values are, that is no string of characters.
NoValue == <<None>>

\* What the calls of one thread so far amount to, as far as a later call of the
\* same thread is concerned: its latest call created a row, or its latest two
\* calls created a row and deleted it again.
Trail(e) ==
    IF e.op = "create" /\ e.code = Ok
    THEN [stage |-> "created", key |-> e.key, value |-> e.value, ttl |-> e.ttl,
          at |-> e.at, ep |-> e.ep]
    ELSE IF /\ e.op = "delete" /\ e.code = Ok
            /\ e.after.stage = "created" /\ e.after.key = e.key /\ e.after.ep = e.ep
    THEN [stage |-> "deleted", key |-> e.key, ep |-> e.ep + 1]
    ELSE [stage |-> None]

\* The record of a call c that ended with code (Ok, or what it raised) and
\* returned ret.
Entry(c, code, ret) ==
    [op |-> c.op, key |-> c.key, value |-> c.value, ttl |-> c.ttl,
     code |-> code, ret |-> ret,
     absent0 |-> c.absent0, full0 |-> c.full0, empty0 |-> c.empty0,
     hit0 |-> c.hit0, now0 |-> c.now0, saw |-> c.saw, after |-> c.after,
     ep |-> c.ep, at |-> c.at]

\* The call of thread t, whose record is c, ends: it returns ret (code Ok) or
\* raises code.  From now on no call has seen the latest call of t return before
\* it started.
Finish(t, c, code, ret) ==
    /\ pc' = [pc EXCEPT ![t] = "idle"]
    /\ last' = [u \in Threads |->
                  IF u = t THEN Entry(c, code, ret)
                  ELSE IF last[u].op = None THEN last[u]
                  ELSE [last[u] EXCEPT !.saw = @ \ {t}]]
    /\ call' = [u \in Threads |->
                  IF u = t \/ call[u].op = None THEN NoCall
                  ELSE [call[u] EXCEPT !.saw = @ \ {t}]]
    /\ capacity_hit' = (capacity_hit \/ code = CapacityExceededError)

\* The successful mutations so far, counted and sized as lines 142 and 229 mean
\* to, as long as no commit has run on the handle; Flushed from the first commit.
NoMutation == [n |-> 0, size |-> 0]
Flushed == [n |-> -1, size |-> -1]
Mutation(p, size) ==
    IF p = Flushed THEN Flushed ELSE [n |-> p.n + 1, size |-> p.size + size]

\* The call of t when the statement that decides its outcome runs, the key's
\* epoch being e; a create notes the time too, its row's timestamp.
Decided(t, e) ==
    [call[t] EXCEPT !.ep = e, !.at = IF call[t].op = "create" THEN now ELSE @]

\* ---------------------------------------------------------------- the mutex
\* A mutex that never keeps a thread out.
CanAcquire_free(who) == TRUE

\* with self._lock: entering blocks while another thread holds the mutex.
CanAcquire(who) == lock = None

\* --------------------------------------------------------------------- Init
\* The two threads that __init__ starts.
Loops == {"periodic_commit", "periodic_check_for_ttl"}

\* The data file as an earlier run of the program can have left it: new, one
\* row short of the size limit, or grown to the size limit.
NewFile == [rows |-> {}, pages |-> 0]
OneRow == {Row(<<"7">>, <<"\"", "a", "\"">>, 0, -1)}
RoomForOne == [rows |-> OneRow, pages |-> _DB_SIZE_LIMIT - 1]
FullFile == [rows |-> OneRow, pages |-> _DB_SIZE_LIMIT]

AllOps == {"create", "read", "delete"}
Solo == [t1 |-> MaxCalls, t2 |-> 0]
Both == [t1 |-> MaxPar, t2 |-> MaxPar]
Lead == [t1 |-> MaxPar + 1, t2 |-> MaxPar]

\* What the worker threads of one run do: how many calls each thread makes, which
\* calls, the keys, values and ttls they pass, and the file the handle is open on.
Workload(calls, ops, keys, values, ttls, file) ==
    [calls |-> calls, ops |-> ops, keys |-> keys, values |-> values, ttls |-> ttls,
     file |-> file, faults |-> FALSE]

\* The same workload in a run where a statement of a background thread can fail.
WithFaults(w) == [w EXCEPT !.faults = TRUE]

Workloads ==
    { \* one caller, a key in canonical form
      Workload(Solo, AllOps, {<<"7">>}, {<<"a">>}, {-1, 0}, NewFile),
      \* one caller, a key with a leading zero
      Workload(Solo, AllOps, {<<"0", "7">>}, {<<"a">>}, {-1, 0}, NewFile),
      \* one caller, a key that is a word
      Workload(Solo, AllOps, {<<"k">>}, {<<"a">>}, {-1}, NewFile),
      \* one caller, values with quote characters
      Workload(Solo, AllOps, {<<"7">>}, {<<"'">>, <<"'", "'">>}, {-1}, NewFile),
      \* one caller, a file already at the size limit
      Workload(Solo, AllOps, {<<"7">>, <<"0", "7">>}, {<<"a">>}, {-1}, FullFile),
      \* two creators, keys and values at the size limits and beyond them
      Workload(Both, {"create"}, {<<"7", "0">>, <<"7", "7", "7">>},
               {<<"a", "a">>, <<"a", "a", "a">>}, {-1}, NewFile),
      \* one caller, and statements of the background threads that fail
      WithFaults(Workload(Solo, {"create", "read"}, {<<"7">>}, {<<"a">>}, {-1}, NewFile)),
      \* two callers, one key
      Workload(Both, AllOps, {<<"7">>}, {<<"'", "'">>}, {-1}, NewFile),
      \* two callers, one of which can compact the file
      Workload(Both, {"create", "optimize_file"}, {<<"7">>}, {<<"a">>}, {-1}, NewFile),
      \* two callers that create and delete one key, one of them once more
      Workload(Lead, {"create", "delete"}, {<<"7">>}, {<<"a">>}, {-1}, NewFile),
      \* two callers, a key that is a word
      Workload(Both, AllOps, {<<"k">>}, {<<"a">>}, {-1}, NewFile),
      \* two creators, two new keys, a file with room for one more row
      Workload(Both, {"create"}, {<<"0", "7">>, <<"7", "0">>}, {<<"a">>}, {-1},
               RoomForOne) }

\* What open() returns or raises; a handle is named by its process and by its
\* rank among the KeyValueStore objects the process constructed.
NoHandle == [proc |-> None, n |-> 0]
Handle(p, n) == [proc |-> p, n |-> n]
Addresses == {d \o f : d \in FileDirs \cup {_DEFAULT_DIRECTORY}, f \in FileNames}
NoAddress == <<>>

\* The file that the operating system finds at an address, for sqlite3.connect
\* and for FileLock alike: a leading "./" names the working directory.
RECURSIVE Resolve(_)
Resolve(a) ==
    IF Len(a) >= 2 /\ a[1] = "." /\ a[2] = "/"
    THEN Resolve(SubSeq(a, 3, Len(a)))
    ELSE a
Files == {Resolve(a) : a \in Addresses}
NoResult == [res |-> Ok, handle |-> NoHandle, address |-> NoAddress]

\* No process has called open() yet.
NothingOpen ==
    /\ _class_lock = [p \in Procs |-> None]
    /\ _all_objects = [p \in Procs |-> [a \in Addresses |-> NoHandle]]
    /\ system_lock = [f \in Files |-> NoHandle]
    /\ data_file = [f \in Files |-> "absent"]
    /\ opc = [p \in Procs |-> [t \in Threads |-> "idle"]]
    /\ ocall = [p \in Procs |-> [t \in Threads |-> NoAddress]]
    /\ oresult = [p \in Procs |-> [t \in Threads |-> NoResult]]
    /\ nopens = [p \in Procs |-> [t \in Threads |-> 0]]
    /\ built = [p \in Procs |-> 0]
    /\ returned = [p \in Procs |-> [f \in Files |-> {}]]
    /\ acquired = [p \in Procs |-> [f \in Files |-> 0]]
    /\ started = [p \in Procs |-> [f \in Files |-> 0]]

\* The handle whose operations the worker threads call: process p1 opened "f".
TheFile == <<"f">>
TheHandle == Handle("p1", 1)
OneOpen ==
    /\ _class_lock = [p \in Procs |-> None]
    /\ _all_objects = [p \in Procs |-> [a \in Addresses |->
                          IF p = "p1" /\ a = TheFile THEN TheHandle ELSE NoHandle]]
    /\ system_lock = [f \in Files |-> IF f = TheFile THEN TheHandle ELSE NoHandle]
    /\ data_file = [f \in Files |-> IF f = TheFile THEN "table" ELSE "absent"]
    /\ opc = [p \in Procs |-> [t \in Threads |-> "idle"]]
    /\ ocall = [p \in Procs |-> [t \in Threads |-> NoAddress]]
    /\ oresult = [p \in Procs |-> [t \in Threads |->
                     IF p = "p1" /\ t = "t1"
                     THEN [res |-> Ok, handle |-> TheHandle, address |-> TheFile]
                     ELSE NoResult]]
    /\ nopens = [p \in Procs |-> [t \in Threads |-> IF p = "p1" /\ t = "t1" THEN 1 ELSE 0]]
    /\ built = [p \in Procs |-> IF p = "p1" THEN 1 ELSE 0]
    /\ returned = [p \in Procs |-> [f \in Files |->
                      IF p = "p1" /\ f = TheFile THEN {TheHandle} ELSE {}]]
    /\ acquired = [p \in Procs |-> [f \in Files |->
                      IF p = "p1" /\ f = TheFile THEN 1 ELSE 0]]
    /\ started = [p \in Procs |-> [f \in Files |->
                     IF p = "p1" /\ f = TheFile THEN 2 ELSE 0]]

\* The handle as __init__ leaves it, on the file the workload names.
HandleInit(w) ==
    /\ workload = w
    /\ table = w.file.rows
    /\ disk = w.file.rows
    /\ page_count = w.file.pages
    /\ now = 0
    /\ lock = None
    /\ pc = [t \in Threads |-> "idle"]
    /\ call = [t \in Threads |-> NoCall]
    /\ tmp = [t \in Threads |-> 0]
    /\ uncommitted_transactions = 0
    /\ uncommitted_size = 0
    /\ last = [t \in Threads |-> NoCall]
    /\ ncalls = [t \in Threads |-> 0]
    /\ capacity_hit = FALSE
    /\ epoch = [k \in Keys |-> 0]
    /\ in_transaction = FALSE
    /\ periodic = [l \in Loops |-> "running"]
    /\ crashed = FALSE
    /\ pending = NoMutation

Init ==
    /\ \E w \in Workloads : HandleInit(w)
    /\ OneOpen

\* No handle exists and no worker thread calls an operation.  Two threads of
\* process p1 and one thread of process p2 call open().
NoCalls == [t1 |-> 0, t2 |-> 0]
Opens == [p \in Procs |-> [t \in Threads |->
            IF p = "p1" /\ t = "t1" THEN MaxOpens
            ELSE IF p = "p1" \/ t = "t1" THEN 1 ELSE 0]]
InitOpen ==
    /\ HandleInit(Workload(NoCalls, {}, {}, {}, {}, NewFile))
    /\ NothingOpen

\* ------------------------------------------------------------- call starts
\* A worker thread calls op(k, v, ttl) and moves to `next`.
Begin(t, op, k, v, ttl, next) ==
    /\ pc[t] = "idle"
    /\ op \in workload.ops
    /\ ncalls[t] < workload.calls[t]
    /\ ncalls' = [ncalls EXCEPT ![t] = @ + 1]
    /\ call' = [call EXCEPT ![t] =
                  [op |-> op, key |-> k, value |-> v, ttl |-> ttl,
                   absent0 |-> op = "create" /\ Select(table, k) = {},
                   full0 |-> op = "create" /\ _db_size >= _DB_SIZE_LIMIT,
                   empty0 |-> op = "create" /\ table = {},
                   hit0 |-> op = "create" /\ capacity_hit,
                   now0 |-> now,
                   saw |-> {u \in Threads \ {t} : pc[u] = "idle" /\ last[u].op # None},
                   after |-> Trail(last[t]),
                   ep |-> epoch[k], at |-> 0]]
    /\ pc' = [pc EXCEPT ![t] = next]
    /\ UNCHANGED <<table, disk, page_count, now, lock, tmp, uncommitted_transactions,
                   uncommitted_size, last, capacity_hit, epoch, workload, pending,
                   in_transaction, periodic, crashed, ovars>>

\* create() with a key that is rejected from the length of the limit on.
CreateCall_strict(t) ==
    \E k \in workload.keys, v \in workload.values, ttl \in workload.ttls :
       Begin(t, "create", k, v, ttl,
             IF Len(k) >= _KEY_SIZE_LIMIT THEN "raise_key"
             ELSE IF Len(json_dumps(v)) >= _VALUE_SIZE_LIMIT THEN "raise_value"
             ELSE "ttl")

\* create(): lines 110-121, the two size checks, come first.
CreateCall(t) ==
    \E k \in workload.keys, v \in workload.values, ttl \in workload.ttls :
       Begin(t, "create", k, v, ttl,
             IF Len(k) > _KEY_SIZE_LIMIT THEN "raise_key"
             ELSE IF Len(json_dumps(v)) >= _VALUE_SIZE_LIMIT THEN "raise_value"
             ELSE "ttl")

ReadCall(t) == \E k \in workload.keys : Begin(t, "read", k, NoValue, -1, "ttl")

DeleteCall(t) == \E k \in workload.keys : Begin(t, "delete", k, NoValue, -1, "ttl")

\* Thread t moves on to `next`, its call's record becoming c.
Goto(t, next, c) ==
    /\ pc' = [pc EXCEPT ![t] = next]
    /\ call' = [call EXCEPT ![t] = c]
    /\ UNCHANGED <<last, capacity_hit>>

\* create(): the raise of line 116 or of line 120.
CreateRaise(t) ==
    /\ pc[t] \in {"raise_key", "raise_value"}
    /\ Finish(t, call[t],
              IF pc[t] = "raise_key" THEN KeyTooLargeError ELSE ValueTooLargeError, NoValue)
    /\ UNCHANGED <<table, disk, page_count, now, lock, tmp, uncommitted_transactions,
                   uncommitted_size, workload, pending, in_transaction, periodic,
                   crashed, ncalls, epoch, ovars>>

\* ------------------------------------------------------------ lazy TTL check
\* _check_for_ttl(key): under the mutex, DELETE ... WHERE key=<key> AND ttl != -1
\* AND now - timestamp > ttl.  The key is spliced bare.
LazyVictims(k) ==
    {r \in table : r.key = SqlBare(k).text /\ Expired(r, now)}

_check_for_ttl(t) ==
    /\ pc[t] = "ttl"
    /\ CanAcquire(t)
    /\ IF SqlBare(call[t].key).err
       THEN /\ Finish(t, Decided(t, epoch[call[t].key]), OperationalError, NoValue)
            /\ UNCHANGED <<table, in_transaction>>
       ELSE /\ table' = table \ LazyVictims(call[t].key)
            /\ in_transaction' = TRUE
            /\ Goto(t, CASE call[t].op = "create" -> "c_select"
                         [] call[t].op = "read" -> "r_select"
                         [] OTHER -> "d_select",
                    call[t])
    /\ UNCHANGED <<disk, page_count, now, lock, tmp, uncommitted_transactions,
                   uncommitted_size, workload, pending, periodic, crashed, ncalls,
                   epoch, ovars>>

\* ------------------------------------------------------------------ create
\* create(), lines 127-132: enter the mutex, SELECT the key, raise if it exists.
CreateSelect(t) ==
    /\ pc[t] = "c_select"
    /\ CanAcquire(t)
    /\ IF Select(table, call[t].key) # {}
       THEN /\ Finish(t, Decided(t, epoch[call[t].key]), DuplicateKeyError, NoValue)
            /\ UNCHANGED lock
       ELSE /\ lock' = t
            /\ Goto(t, "c_size", call[t])
    /\ UNCHANGED <<table, disk, page_count, now, tmp, uncommitted_transactions,
                   uncommitted_size, workload, pending, in_transaction, periodic,
                   crashed, ncalls, epoch, ovars>>

\* A size guard that raises without leaving the mutex.
CreateSize_keeps(t) ==
    /\ pc[t] = "c_size"
    /\ IF _db_size >= _DB_SIZE_LIMIT
       THEN Finish(t, Decided(t, epoch[call[t].key]), CapacityExceededError, NoValue)
       ELSE Goto(t, "c_insert", call[t])
    /\ UNCHANGED <<table, disk, page_count, now, lock, tmp, uncommitted_transactions,
                   uncommitted_size, workload, pending, in_transaction, periodic,
                   crashed, ncalls, epoch, ovars>>

\* create(), lines 135-136: the size guard, inside the mutex.
CreateSize(t) ==
    /\ pc[t] = "c_size"
    /\ IF _db_size >= _DB_SIZE_LIMIT
       THEN /\ Finish(t, Decided(t, epoch[call[t].key]), CapacityExceededError, NoValue)
            /\ lock' = None
       ELSE /\ Goto(t, "c_insert", call[t])
            /\ UNCHANGED lock
    /\ UNCHANGED <<table, disk, page_count, now, tmp, uncommitted_transactions,
                   uncommitted_size, workload, pending, in_transaction, periodic,
                   crashed, ncalls, epoch, ovars>>

\* create(), lines 139-140: INSERT ... VALUES ('<key>', '<json>', '<now>', '<ttl>'),
\* then leave the mutex.  key is the table's PRIMARY KEY (line 205).
CreateInsert(t) ==
    /\ pc[t] = "c_insert"
    /\ LET k == SqlString(call[t].key)
           v == SqlString(json_dumps(call[t].value))
       IN  IF k.err \/ v.err
           THEN /\ Finish(t, Decided(t, epoch[call[t].key]), OperationalError, NoValue)
                /\ UNCHANGED <<table, page_count, epoch, in_transaction, pending>>
           ELSE IF \E r \in table : r.key = k.text
           THEN /\ Finish(t, Decided(t, epoch[call[t].key]), IntegrityError, NoValue)
                /\ in_transaction' = TRUE
                /\ UNCHANGED <<table, page_count, epoch, pending>>
           ELSE /\ table' = table \cup {Row(k.text, v.text, now, call[t].ttl)}
                /\ page_count' = PagesAfterInsert(table)
                /\ epoch' = [epoch EXCEPT ![call[t].key] = @ + 1]
                /\ in_transaction' = TRUE
                /\ pending' = Mutation(pending, Len(call[t].key)
                                                + Len(json_dumps(call[t].value)))
                /\ Goto(t, "c_sz_load", Decided(t, epoch[call[t].key] + 1))
    /\ lock' = None
    /\ UNCHANGED <<disk, now, tmp, uncommitted_transactions, uncommitted_size, workload,
                   periodic, crashed, ncalls, ovars>>

\* create(), line 142: self._uncommitted_size += key_len + value_len, outside the
\* mutex: the attribute is loaded, then stored.
AddSizeLoad(t) ==
    /\ pc[t] = "c_sz_load"
    /\ tmp' = [tmp EXCEPT ![t] = uncommitted_size]
    /\ Goto(t, "c_sz_store", call[t])
    /\ UNCHANGED <<table, disk, page_count, now, lock, uncommitted_transactions,
                   uncommitted_size, workload, pending, in_transaction, periodic,
                   crashed, ncalls, epoch, ovars>>

AddSizeStore(t) ==
    /\ pc[t] = "c_sz_store"
    /\ uncommitted_size' = tmp[t] + Len(call[t].key) + Len(json_dumps(call[t].value))
    /\ Goto(t, "m_load", call[t])
    /\ UNCHANGED <<table, disk, page_count, now, lock, tmp, uncommitted_transactions,
                   workload, pending, in_transaction, periodic, crashed, ncalls, epoch,
                   ovars>>

\* -------------------------------------------------------------------- read
\* read(), lines 154-162: SELECT the key without the mutex; raise or return the
\* parsed value.
ReadSelect(t) ==
    /\ pc[t] = "r_select"
    /\ LET rows == Select(table, call[t].key)
       IN  IF rows = {}
           THEN Finish(t, Decided(t, epoch[call[t].key]), KeyNotFoundError, NoValue)
           ELSE \E r \in rows :
                   Finish(t, Decided(t, epoch[call[t].key]), Ok, json_loads(r.value))
    /\ UNCHANGED <<table, disk, page_count, now, lock, tmp, uncommitted_transactions,
                   uncommitted_size, workload, pending, in_transaction, periodic,
                   crashed, ncalls, epoch, ovars>>

\* ------------------------------------------------------------------ delete
\* delete(), lines 173-179: enter the mutex, SELECT the key, raise if absent.
DeleteSelect(t) ==
    /\ pc[t] = "d_select"
    /\ CanAcquire(t)
    /\ IF Select(table, call[t].key) = {}
       THEN /\ Finish(t, Decided(t, epoch[call[t].key]), KeyNotFoundError, NoValue)
            /\ UNCHANGED lock
       ELSE /\ lock' = t
            /\ Goto(t, "d_delete", [call[t] EXCEPT !.ep = epoch[call[t].key]])
    /\ UNCHANGED <<table, disk, page_count, now, tmp, uncommitted_transactions,
                   uncommitted_size, workload, pending, in_transaction, periodic,
                   crashed, ncalls, epoch, ovars>>

\* delete(), line 182, without its DELETE.
DeleteRow_keeps(t) ==
    /\ pc[t] = "d_delete"
    /\ table' = table
    /\ epoch' = [epoch EXCEPT ![call[t].key] = @ + 1]
    /\ lock' = None
    /\ in_transaction' = TRUE
    /\ pending' = Mutation(pending, 0)
    /\ Goto(t, "m_load", call[t])
    /\ UNCHANGED <<disk, page_count, now, tmp, uncommitted_transactions,
                   uncommitted_size, workload, periodic, crashed, ncalls, ovars>>

\* delete(), line 182: DELETE the row and leave the mutex.
DeleteRow(t) ==
    /\ pc[t] = "d_delete"
    /\ table' = table \ Select(table, call[t].key)
    /\ epoch' = [epoch EXCEPT ![call[t].key] = @ + 1]
    /\ lock' = None
    /\ in_transaction' = TRUE
    /\ pending' = Mutation(pending, 0)
    /\ Goto(t, "m_load", call[t])
    /\ UNCHANGED <<disk, page_count, now, tmp, uncommitted_transactions,
                   uncommitted_size, workload, periodic, crashed, ncalls, ovars>>

\* ------------------------------------------------------------ optimize_file
\* optimize_file() takes no argument; the record of the call names a key of the
\* workload only to have the shape of the other records.
OptimizeCall(t) ==
    \E k \in {CHOOSE k \in workload.keys : TRUE} :
       Begin(t, "optimize_file", k, NoValue, -1, "vacuum")

\* optimize_file(), line 192: VACUUM, with no mutex taken.  SQLite refuses it
\* inside a transaction; otherwise it rebuilds the file, which gives the pages
\* of the free list back, and runs as one statement of the shared connection.
Vacuum(t) ==
    /\ pc[t] = "vacuum"
    /\ IF in_transaction
       THEN /\ Finish(t, call[t], OperationalError, NoValue)
            /\ UNCHANGED page_count
       ELSE /\ Finish(t, call[t], Ok, NoValue)
            /\ page_count' = Cardinality(table)
    /\ UNCHANGED <<table, disk, now, lock, tmp, uncommitted_transactions,
                   uncommitted_size, workload, pending, in_transaction, periodic,
                   crashed, ncalls, epoch, ovars>>

\* ----------------------------------------------------------------- _commit
\* _commit(), line 229: self._uncommitted_transactions += 1, outside the mutex.
CommitLoad(t) ==
    /\ pc[t] = "m_load"
    /\ tmp' = [tmp EXCEPT ![t] = uncommitted_transactions]
    /\ Goto(t, "m_store", call[t])
    /\ UNCHANGED <<table, disk, page_count, now, lock, uncommitted_transactions,
                   uncommitted_size, workload, pending, in_transaction, periodic,
                   crashed, ncalls, epoch, ovars>>

CommitStore(t) ==
    /\ pc[t] = "m_store"
    /\ uncommitted_transactions' = tmp[t] + 1
    /\ Goto(t, "m_check", call[t])
    /\ UNCHANGED <<table, disk, page_count, now, lock, tmp, uncommitted_size, workload,
                   pending, in_transaction, periodic, crashed, ncalls, epoch, ovars>>

\* _commit(), lines 230-231: the two thresholds; below both, the call returns.
CommitCheck(t) ==
    /\ pc[t] = "m_check"
    /\ IF \/ uncommitted_transactions >= _MAX_UNCOMMITTED_TRANSACTIONS_ALLOWED
          \/ uncommitted_size >= _MAX_UNCOMMITTED_SIZE_ALLOWED
       THEN Goto(t, "m_commit", call[t])
       ELSE Finish(t, call[t], Ok, NoValue)
    /\ UNCHANGED <<table, disk, page_count, now, lock, tmp, uncommitted_transactions,
                   uncommitted_size, workload, pending, in_transaction, periodic,
                   crashed, ncalls, epoch, ovars>>

\* _commit(), lines 233-234, with a commit that writes nothing.
CommitFlush_forgets(t) ==
    /\ pc[t] = "m_commit"
    /\ CanAcquire(t)
    /\ lock' = t
    /\ in_transaction' = FALSE
    /\ pending' = Flushed
    /\ Goto(t, "m_reset1", call[t])
    /\ UNCHANGED <<table, disk, page_count, now, tmp, uncommitted_transactions,
                   uncommitted_size, workload, periodic, crashed, ncalls, epoch, ovars>>

\* _commit(), lines 233-234: enter the mutex and commit.
CommitFlush(t) ==
    /\ pc[t] = "m_commit"
    /\ CanAcquire(t)
    /\ lock' = t
    /\ disk' = table
    /\ in_transaction' = FALSE
    /\ pending' = Flushed
    /\ Goto(t, "m_reset1", call[t])
    /\ UNCHANGED <<table, page_count, now, tmp, uncommitted_transactions,
                   uncommitted_size, workload, periodic, crashed, ncalls, epoch, ovars>>

\* _commit(), line 236.
CommitResetTransactions(t) ==
    /\ pc[t] = "m_reset1"
    /\ uncommitted_transactions' = 0
    /\ Goto(t, "m_reset2", call[t])
    /\ UNCHANGED <<table, disk, page_count, now, lock, tmp, uncommitted_size, workload,
                   pending, in_transaction, periodic, crashed, ncalls, epoch, ovars>>

\* _commit(), line 237; the mutex is left and the call returns.
CommitResetSize(t) ==
    /\ pc[t] = "m_reset2"
    /\ uncommitted_size' = 0
    /\ lock' = None
    /\ Finish(t, call[t], Ok, NoValue)
    /\ UNCHANGED <<table, disk, page_count, now, tmp, uncommitted_transactions,
                   workload, pending, in_transaction, periodic, crashed, ncalls, epoch,
                   ovars>>

\* -------------------------------------------------------- the periodic loops
\* _periodic_commit(): one pass commits under the mutex, then sleeps.
PeriodicCommit ==
    /\ periodic["periodic_commit"] = "running"
    /\ CanAcquire("periodic_commit")
    /\ disk' = table
    /\ in_transaction' = FALSE
    /\ pending' = Flushed
    /\ UNCHANGED <<table, page_count, now, lock, pc, call, tmp,
                   uncommitted_transactions, uncommitted_size, workload, periodic,
                   crashed, last, ncalls, capacity_hit, epoch, ovars>>

\* _periodic_check_all_for_ttl(): one pass, after a sleep, deletes under the
\* mutex every row whose ttl has run out.
PeriodicSweep ==
    /\ periodic["periodic_check_for_ttl"] = "running"
    /\ CanAcquire("periodic_check_for_ttl")
    /\ table' = {r \in table : ~Expired(r, now)}
    /\ in_transaction' = TRUE
    /\ UNCHANGED <<disk, page_count, now, lock, pc, call, tmp, uncommitted_transactions,
                   uncommitted_size, workload, pending, periodic, crashed, last, ncalls,
                   capacity_hit, epoch, ovars>>

\* The statement of a pass raises (sqlite3.OperationalError: the disk is full,
\* the file is locked): "with self._lock" is left by the exception, which no
\* try statement of the loop catches, and the thread ends.
PeriodicFails(l) ==
    /\ workload.faults
    /\ periodic[l] = "running"
    /\ CanAcquire(l)
    /\ periodic' = [periodic EXCEPT ![l] = "ended"]
    /\ UNCHANGED <<table, disk, page_count, now, lock, pc, call, tmp,
                   uncommitted_transactions, uncommitted_size, workload, pending,
                   in_transaction, crashed, last, ncalls, capacity_hit, epoch, ovars>>

\* The process that opened the handle is running: it holds the file lock that
\* open() acquired, which only the end of the process gives back.
Live == system_lock[TheFile] = TheHandle

\* __del__, lines 47-57: commit, close the connection, release the file lock.
\* The registry _all_objects (line 99) and the two threads of lines 41-45, whose
\* targets are bound methods, refer to the handle, so it is destroyed only when
\* the interpreter finalizes: the program's threads have ended and both loops,
\* which are not daemon threads and which threading._shutdown joins, have ended
\* too.  The process is gone afterwards.
__del__ ==
    /\ Live
    /\ \A t \in Threads : pc[t] = "idle"
    /\ \A l \in Loops : periodic[l] = "ended"
    /\ disk' = table
    /\ in_transaction' = FALSE
    /\ pending' = Flushed
    /\ ncalls' = workload.calls
    /\ _all_objects' = [_all_objects EXCEPT ![TheHandle.proc] = [a \in Addresses |-> NoHandle]]
    /\ system_lock' = [f \in Files |->
                          IF system_lock[f].proc = TheHandle.proc THEN NoHandle
                          ELSE system_lock[f]]
    /\ UNCHANGED <<table, page_count, now, lock, pc, call, tmp, uncommitted_transactions,
                   uncommitted_size, workload, periodic, crashed, last, capacity_hit,
                   epoch, _class_lock, data_file, opc, ocall, oresult, nopens, built,
                   returned, acquired, started>>

\* The process is terminated uncleanly (killed, power lost): no __del__ runs.
\* SQLite rolls the uncommitted transaction back when the file is next opened, so
\* what is left is the committed table; the operating system drops the file lock.
Crash ==
    /\ Live
    /\ ~crashed
    /\ crashed' = TRUE
    /\ table' = disk
    /\ in_transaction' = FALSE
    /\ pending' = Flushed
    /\ periodic' = [l \in Loops |-> "ended"]
    /\ lock' = None
    /\ pc' = [t \in Threads |-> "idle"]
    /\ call' = [t \in Threads |-> NoCall]
    /\ tmp' = [t \in Threads |-> 0]
    /\ uncommitted_transactions' = 0
    /\ uncommitted_size' = 0
    /\ last' = [t \in Threads |-> NoCall]
    /\ ncalls' = workload.calls
    /\ capacity_hit' = FALSE
    /\ epoch' = [k \in Keys |-> 0]
    /\ _all_objects' = [_all_objects EXCEPT ![TheHandle.proc] = [a \in Addresses |-> NoHandle]]
    /\ system_lock' = [f \in Files |->
                          IF system_lock[f].proc = TheHandle.proc THEN NoHandle
                          ELSE system_lock[f]]
    /\ UNCHANGED <<disk, page_count, now, workload, _class_lock, data_file, opc, ocall,
                   oresult, nopens, built, returned, acquired, started>>

\* time.time() advances.  The clock is read only to give a row its timestamp and
\* to compare a finite ttl with the row's age, so it is left at rest in a run
\* whose rows all have an infinite ttl.
Tick ==
    /\ ~crashed
    /\ now < MaxTime
    /\ workload.ttls # {-1}
    /\ now' = now + 1
    /\ UNCHANGED <<table, disk, page_count, lock, pc, call, tmp,
                   uncommitted_transactions, uncommitted_size, workload, pending,
                   in_transaction, periodic, crashed, last, ncalls, capacity_hit, epoch,
                   ovars>>

Next ==
    \/ \E t \in Threads :
          \/ CreateCall(t)
          \/ ReadCall(t)
          \/ DeleteCall(t)
          \/ CreateRaise(t)
          \/ _check_for_ttl(t)
          \/ CreateSelect(t)
          \/ CreateSize(t)
          \/ CreateInsert(t)
          \/ AddSizeLoad(t)
          \/ AddSizeStore(t)
          \/ ReadSelect(t)
          \/ DeleteSelect(t)
          \/ DeleteRow(t)
          \/ OptimizeCall(t)
          \/ Vacuum(t)
          \/ CommitLoad(t)
          \/ CommitStore(t)
          \/ CommitCheck(t)
          \/ CommitFlush(t)
          \/ CommitResetTransactions(t)
          \/ CommitResetSize(t)
    \/ PeriodicCommit
    \/ PeriodicSweep
    \/ \E l \in Loops : PeriodicFails(l)
    \/ __del__
    \/ Crash
    \/ Tick

Spec == Init /\ [][Next]_vars

\* The steps of a call that thread t has started.  Python's scheduler runs every
\* runnable thread again and again, and a thread blocked in "with self._lock"
\* is runnable once the mutex is free; starting a call is the caller's choice.
\* Each of these steps moves t to its next statement, so it changes pc.
Run(t) ==
    \/ CreateRaise(t)
    \/ _check_for_ttl(t)
    \/ CreateSelect(t)
    \/ CreateSize(t)
    \/ CreateInsert(t)
    \/ AddSizeLoad(t)
    \/ AddSizeStore(t)
    \/ ReadSelect(t)
    \/ DeleteSelect(t)
    \/ DeleteRow(t)
    \/ Vacuum(t)
    \/ CommitLoad(t)
    \/ CommitStore(t)
    \/ CommitCheck(t)
    \/ CommitFlush(t)
    \/ CommitResetTransactions(t)
    \/ CommitResetSize(t)

SpecLive == Spec /\ \A t \in Threads : WF_pc(Run(t))

\* ------------------------------------------------------------------ open()
file_address(file_name, file_directory) ==
    IF file_directory # <<>>
    THEN file_directory \o file_name
    ELSE _DEFAULT_DIRECTORY \o file_name

\* threading.Lock: "with cls._class_lock" is entered when no thread is inside.
CanEnter(p) == _class_lock[p] = None

\* open(), line 80: the registry is asked for the address.
Registered(p, a) == _all_objects[p][a]

\* open() ends for thread t of process p.
OpenEnd(p, t, res, h) ==
    /\ opc' = [opc EXCEPT ![p][t] = "idle"]
    /\ oresult' = [oresult EXCEPT ![p][t] =
                      [res |-> res, handle |-> h, address |-> ocall[p][t]]]
    /\ returned' = IF res = Ok
                   THEN [returned EXCEPT ![p][Resolve(ocall[p][t])] = @ \cup {h}]
                   ELSE returned

\* open(file_name, file_directory), lines 71-74: the address is the plain
\* concatenation of the directory and the name.
OpenCall(p, t) ==
    /\ opc[p][t] = "idle"
    /\ nopens[p][t] < Opens[p][t]
    /\ \E file_name \in FileNames, file_directory \in FileDirs :
          ocall' = [ocall EXCEPT ![p][t] = file_address(file_name, file_directory)]
    /\ nopens' = [nopens EXCEPT ![p][t] = @ + 1]
    /\ opc' = [opc EXCEPT ![p][t] = "o_enter"]
    /\ UNCHANGED <<_class_lock, _all_objects, system_lock, data_file, oresult, built,
                   returned, acquired, started, hvars>>

\* open(), lines 77-81: the class lock is taken; a registered handle is
\* returned at once.
OpenEnter(p, t) ==
    /\ opc[p][t] = "o_enter"
    /\ CanEnter(p)
    /\ IF Registered(p, ocall[p][t]) # NoHandle
       THEN /\ OpenEnd(p, t, Ok, Registered(p, ocall[p][t]))
            /\ UNCHANGED _class_lock
       ELSE /\ _class_lock' = [_class_lock EXCEPT ![p] = t]
            /\ opc' = [opc EXCEPT ![p][t] = "o_connect"]
            /\ UNCHANGED <<oresult, returned>>
    /\ UNCHANGED <<_all_objects, system_lock, data_file, ocall, nopens, built, acquired,
                   started, hvars>>

\* open(), line 84: sqlite3.connect opens the data file and creates it when
\* it does not exist.
OpenConnect(p, t) ==
    /\ opc[p][t] = "o_connect"
    /\ data_file' = [data_file EXCEPT ![Resolve(ocall[p][t])] = IF @ = "absent" THEN "empty" ELSE @]
    /\ opc' = [opc EXCEPT ![p][t] = "o_table"]
    /\ UNCHANGED <<_class_lock, _all_objects, system_lock, ocall, oresult, nopens,
                   built, returned, acquired, started, hvars>>

\* open(), line 87: _create_table runs CREATE TABLE IF NOT EXISTS and commits.
OpenCreateTable(p, t) ==
    /\ opc[p][t] = "o_table"
    /\ data_file' = [data_file EXCEPT ![Resolve(ocall[p][t])] = "table"]
    /\ opc' = [opc EXCEPT ![p][t] = "o_flock"]
    /\ UNCHANGED <<_class_lock, _all_objects, system_lock, ocall, oresult, nopens,
                   built, returned, acquired, started, hvars>>

\* open(), lines 90-93: a new FileLock on <address>.lock is acquired; it is
\* free when no FileLock object, of this process or another, holds the file.
OpenAcquire(p, t) ==
    /\ opc[p][t] = "o_flock"
    /\ system_lock[Resolve(ocall[p][t])] = NoHandle
    /\ system_lock' = [system_lock EXCEPT ![Resolve(ocall[p][t])] = Handle(p, built[p] + 1)]
    /\ acquired' = [acquired EXCEPT ![p][Resolve(ocall[p][t])] = @ + 1]
    /\ opc' = [opc EXCEPT ![p][t] = "o_init"]
    /\ UNCHANGED <<_class_lock, _all_objects, data_file, ocall, oresult, nopens, built,
                   returned, started, hvars>>

\* open(), lines 94-95: acquire(timeout=1) gives up and the exception leaves
\* "with cls._class_lock".
OpenTimeout(p, t) ==
    /\ opc[p][t] = "o_flock"
    /\ system_lock[Resolve(ocall[p][t])] # NoHandle
    /\ _class_lock' = [_class_lock EXCEPT ![p] = IF @ = t THEN None ELSE @]
    /\ OpenEnd(p, t, ConcurrentAccessError, NoHandle)
    /\ UNCHANGED <<_all_objects, system_lock, data_file, ocall, nopens, built, acquired,
                   started, hvars>>

\* open(), lines 98-101, and __init__: the object is constructed, its two
\* threads are started, it is registered and returned.
OpenConstruct(p, t) ==
    /\ opc[p][t] = "o_init"
    /\ built' = [built EXCEPT ![p] = @ + 1]
    /\ started' = [started EXCEPT ![p][Resolve(ocall[p][t])] = @ + 2]
    /\ _all_objects' = [_all_objects EXCEPT ![p][ocall[p][t]] = Handle(p, built[p] + 1)]
    /\ _class_lock' = [_class_lock EXCEPT ![p] = IF @ = t THEN None ELSE @]
    /\ OpenEnd(p, t, Ok, Handle(p, built[p] + 1))
    /\ UNCHANGED <<system_lock, data_file, ocall, nopens, acquired, hvars>>

NextOpen ==
    \E p \in Procs, t \in Threads :
        \/ OpenCall(p, t)
        \/ OpenEnter(p, t)
        \/ OpenConnect(p, t)
        \/ OpenCreateTable(p, t)
        \/ OpenAcquire(p, t)
        \/ OpenTimeout(p, t)
        \/ OpenConstruct(p, t)

SpecOpen == InitOpen /\ [][NextOpen]_vars

\* ------------------------------------------------------------- properties
\* A key and a value that create() lets through its two size checks.
ValidKey(k) == Len(k) <= _KEY_SIZE_LIMIT
ValidValue(v) == Len(json_dumps(v)) < _VALUE_SIZE_LIMIT

\* One thread alone calls the handle's operations.
SoleCaller == workload.calls = Solo

\* The latest call of t was op(k) and came right after a call of t that left
\* the trail `stage` for the same key, no INSERT or DELETE of a create or delete
\* on that key having run in between.
Follows(t, op, stage) ==
    /\ last[t].op = op
    /\ last[t].after.stage = stage
    /\ last[t].after.key = last[t].key
    /\ last[t].after.ep = last[t].ep

\* C1: for every valid key and valid value, on a handle where the key is
\* absent, create(key, value) followed by read(key) raises nothing in either
\* call and the read returns a value equal to the one stored.
C1_create_then_read ==
    \A t \in Threads :
        /\ ( /\ SoleCaller
             /\ last[t].op = "create"
             /\ ValidKey(last[t].key) /\ ValidValue(last[t].value)
             /\ last[t].ttl = -1
             /\ last[t].absent0 /\ ~last[t].full0 )
           => last[t].code = Ok
        /\ ( /\ Follows(t, "read", "created")
             /\ last[t].after.ttl = -1 )
           => /\ last[t].code = Ok
              /\ last[t].ret = last[t].after.value

\* C2: after create(key, value) and then delete(key) have both returned,
\* read(key) raises KeyNotFoundError (code 202) and the table holds no row for
\* the key.
C2_create_delete_read ==
    \A t \in Threads :
        /\ Follows(t, "read", "deleted") => last[t].code = KeyNotFoundError
        /\ ( /\ Trail(last[t]).stage = "deleted"
             /\ epoch[last[t].key] = Trail(last[t]).ep )
           => Select(table, last[t].key) = {}

\* A read that followed a create and a delete of its key has ended.
C2_witness ==
    \E t \in Threads :
        /\ Follows(t, "read", "deleted")
        /\ last[t].code = KeyNotFoundError
        /\ Select(table, last[t].key) = {}

\* C3: for a row created with a finite ttl, once now - created_at > ttl both
\* read(key) and delete(key) raise KeyNotFoundError, whether or not the periodic
\* sweep has run since the row expired.
C3_lazy_expiry ==
    \A t \in Threads :
        ( /\ \/ Follows(t, "read", "created")
             \/ Follows(t, "delete", "created")
          /\ last[t].after.ttl # -1
          /\ last[t].now0 - last[t].after.at > last[t].after.ttl )
        => last[t].code = KeyNotFoundError

\* The latest calls of t and u ran concurrently: neither had returned when the
\* other started.
Concurrent(t, u) ==
    /\ t # u
    /\ last[t].op # None /\ last[u].op # None
    /\ u \notin last[t].saw
    /\ t \notin last[u].saw

\* C4: when two threads call create with the same absent key concurrently on
\* one handle, exactly one call succeeds, the other raises DuplicateKeyError,
\* and afterwards the table holds exactly one row for the key, the winner's.
C4_concurrent_create ==
    \A t, u \in Threads :
        ( /\ Concurrent(t, u)
          /\ last[t].op = "create" /\ last[u].op = "create"
          /\ last[t].key = last[u].key
          /\ ValidKey(last[t].key)
          /\ ValidValue(last[t].value) /\ ValidValue(last[u].value)
          /\ last[t].absent0 /\ last[u].absent0
          /\ ~last[t].full0 /\ ~last[u].full0 )
        => \E w \in {t, u} :
              /\ last[w].code = Ok
              /\ \A l \in {t, u} \ {w} : last[l].code = DuplicateKeyError
              /\ epoch[last[w].key] = last[w].ep
                 => Select(table, last[w].key) =
                       {Row(last[w].key, SqlString(json_dumps(last[w].value)).text,
                            last[w].at, last[w].ttl)}

\* C8: once create(key, value) has returned successfully in one thread, a
\* read(key) started afterwards by any thread of the handle returns that value,
\* provided the key was neither deleted nor expired in between.
C8_read_after_create ==
    \A t, u \in Threads :
        ( /\ t # u
          /\ last[t].op = "create" /\ last[t].code = Ok /\ last[t].ttl = -1
          /\ last[u].op = "read" /\ last[u].key = last[t].key
          /\ t \in last[u].saw
          /\ last[u].ep = last[t].ep )
        => /\ last[u].code = Ok
           /\ last[u].ret = last[t].value

\* C9: no create inserts a row when the table's size is at or above
\* _DB_SIZE_LIMIT: every step of the live handle that adds a row (an INSERT,
\* not the rollback after a crash) runs in a state whose size is below the limit,
\* and a create that reads a size at or above the limit raises
\* CapacityExceededError and inserts nothing.
C9_size_guard ==
    [][ /\ (~crashed' /\ \E r \in table' : r \notin table) => _db_size < _DB_SIZE_LIMIT
        /\ \A t \in Threads :
              ( /\ pc[t] = "c_size" /\ pc'[t] # "c_size" /\ ~crashed'
                /\ _db_size >= _DB_SIZE_LIMIT )
              => /\ last'[t].code = CapacityExceededError
                 /\ table' = table ]_vars

\* Of two concurrent creates, one has inserted its row and the other was
\* turned away by the size guard.
C9_witness ==
    \E t, u \in Threads :
        /\ Concurrent(t, u)
        /\ last[t].op = "create" /\ last[t].code = Ok
        /\ Select(table, last[t].key) # {}
        /\ last[u].op = "create" /\ last[u].code = CapacityExceededError
        /\ _db_size >= _DB_SIZE_LIMIT

\* C10: after a create has raised CapacityExceededError, deleting all the keys
\* inserted before (without optimize_file) leaves the store in a state in which
\* a create of a valid new key succeeds.
C10_insertable_after_deletes ==
    \A t \in Threads :
        ( /\ last[t].op = "create"
          /\ last[t].hit0 /\ last[t].empty0
          /\ SoleCaller
          /\ ValidKey(last[t].key) /\ ValidValue(last[t].value) )
        => last[t].code = Ok

\* C5: at most one process manipulates a given data file: a process that has
\* opened the data file, created the schema in it or committed to it holds the
\* file's exclusivity lock, which has one holder at a time.
C5_exclusive_file ==
    \A p \in Procs, t \in Threads :
        opc[p][t] \in {"o_table", "o_flock"}
        => system_lock[Resolve(ocall[p][t])].proc = p

\* C6: when a process calls open on a file whose exclusivity lock is held by a
\* handle of another process, the call raises ConcurrentAccessError with
\* exception code 100 and no handle for the path enters the caller's registry.
C6_concurrent_access_error ==
    \A p \in Procs, t \in Threads :
        ( /\ oresult[p][t].res # Ok
          /\ system_lock[Resolve(oresult[p][t].address)].proc \notin {p, None} )
        => /\ oresult[p][t].res = Raise(100)
           /\ \A a \in Addresses :
                 Resolve(a) = Resolve(oresult[p][t].address)
                 => _all_objects[p][a] = NoHandle

\* C7: within one process, all the open calls for the same resolved path,
\* sequential or concurrent, return the same handle (none raises), and for that
\* path the exclusivity lock is acquired once and the two background loops are
\* started once.
C7_one_handle_per_path ==
    \A p \in Procs, f \in Files :
        /\ Cardinality(returned[p][f]) <= 1
        /\ acquired[p][f] <= 1
        /\ started[p][f] \in {0, 2}
        /\ returned[p][f] # {} => (acquired[p][f] = 1 /\ started[p][f] = 2)
        /\ \A t \in Threads :
              (oresult[p][t].res # Ok /\ Resolve(oresult[p][t].address) = f)
              => returned[p][f] = {}

\* C11: when a flush (of _commit or of the periodic loop) completes, every
\* mutation applied on the handle before it is durable; no other step writes
\* the durable table, so that after an unclean termination the table is the one
\* of the last completed flush; and before the crash a row created on the handle
\* is visible to a read of the handle whether or not it was flushed.
C11_flush_durability ==
    /\ [][ /\ \A t \in Threads :
                 (pc[t] = "m_commit" /\ pc'[t] = "m_reset1") => disk' = table
           /\ (in_transaction /\ ~in_transaction' /\ ~crashed') => disk' = table
           /\ disk' # disk => (disk' = table /\ table' = table /\ ~crashed')
           /\ (crashed' /\ ~crashed) => (table' = disk /\ disk' = disk) ]_vars
    /\ [](\A t \in Threads :
             (Follows(t, "read", "created") /\ last[t].after.ttl = -1)
             => last[t].code = Ok)

\* The process was terminated after a flush had made a mutation durable: the
\* table that is left differs from the one the handle was opened on.
C11_witness ==
    /\ crashed
    /\ table = disk
    /\ table # workload.file.rows

\* C12: optimize_file is exclusive: while it runs, no create, read or delete of
\* another thread and no background flush or sweep is inside its table access
\* (none is inside the handle's critical section when the VACUUM executes), and
\* it leaves the logical row set unchanged.
C12_optimize_exclusive ==
    [][ \A t \in Threads :
           (pc[t] = "vacuum" /\ pc'[t] = "idle" /\ ~crashed' /\ last'[t].code = Ok)
           => (lock = None /\ table' = table) ]_vars

\* The counters and the table, committed or not.
Stored == <<table, disk, page_count, uncommitted_transactions, uncommitted_size>>

C14_no_expired_row_seen ==
    [][ \A t \in Threads :
           ( /\ pc[t] \in {"c_select", "r_select", "d_select"}
             /\ pc'[t] # pc[t]
             /\ ~crashed' )
           => \A r \in Select(table, call[t].key) : ~Expired(r, now) ]_vars

\* The latest call of t, a create or a delete, returns successfully in this step.
Returns(t) ==
    /\ pc[t] # "idle" /\ pc'[t] = "idle"
    /\ ~crashed'
    /\ last'[t].op \in {"create", "delete"}
    /\ last'[t].code = Ok

\* C15: whenever a create or delete call returns successfully, the uncommitted
\* count is below _MAX_UNCOMMITTED_TRANSACTIONS_ALLOWED and the uncommitted
\* size is below _MAX_UNCOMMITTED_SIZE_ALLOWED.
C15_counters_below_thresholds ==
    [][ \A t \in Threads :
           Returns(t) =>
              /\ uncommitted_transactions' < _MAX_UNCOMMITTED_TRANSACTIONS_ALLOWED
              /\ uncommitted_size' < _MAX_UNCOMMITTED_SIZE_ALLOWED ]_vars

\* C16: counter updates are never lost: when all the calls of concurrent creates
\* and deletes have returned and no flush has run, the uncommitted count is the
\* number of successful mutations and the uncommitted size is the sum of key
\* length plus serialized value length of the successful creates.
C16_no_lost_update ==
    ( /\ \A t \in Threads : pc[t] = "idle"
      /\ pending # Flushed )
    => /\ uncommitted_transactions = pending.n
       /\ uncommitted_size = pending.size

\* C17: every pass of the periodic commit loop flushes unconditionally and
\* resets both counters, so that right after a periodic flush the uncommitted
\* count and the uncommitted size are 0.
C17_periodic_commit_resets ==
    [][ ( /\ lock = None
          /\ pc' = pc
          /\ ~crashed'
          /\ in_transaction /\ ~in_transaction' )
        => /\ disk' = table
           /\ uncommitted_transactions' = 0
           /\ uncommitted_size' = 0 ]_vars

\* C18: every pass of the periodic sweep loop deletes, under the handle mutex
\* and in one step, exactly the rows whose finite ttl has elapsed (every other
\* row stays), and then triggers the commit batcher: the deletion is counted
\* as an uncommitted transaction or is flushed to disk.
C18_sweep_then_commit ==
    [][ ( /\ pc' = pc
          /\ ~crashed'
          /\ table' # table )
        => /\ lock = None /\ lock' = None
           /\ table' = {r \in table : ~Expired(r, now)}
           /\ \/ uncommitted_transactions' = uncommitted_transactions + 1
              \/ disk' = table' ]_vars

\* Where a thread is while it is inside "with self._lock", and where it waits to
\* enter it.
Inside == {"c_size", "c_insert", "d_delete", "m_reset1", "m_reset2"}
Entering == {"ttl", "c_select", "d_select", "m_commit"}

\* C19: every create, read and delete call on a live handle eventually returns
\* or raises in every fair interleaving with the other callers and the two
\* background loops: the mutex is held only by a thread inside one of its
\* "with" blocks (so it is released on every path, error paths included), a
\* thread about to enter a block does not hold it already, and no background
\* loop holds it between its passes.
C19_calls_return ==
    /\ [](/\ lock \in Threads \cup {None}
          /\ \A t \in Threads : (lock = t) <=> (pc[t] \in Inside))
    /\ \A t \in Threads : (pc[t] # "idle") ~> (pc[t] = "idle")

\* A call has raised inside the mutex, and a call of the other thread that
\* started afterwards has entered the mutex and returned.
C19_witness ==
    \E t, u \in Threads :
        /\ pc[t] = "idle" /\ pc[u] = "idle"
        /\ last[t].op # None /\ last[u].op # None
        /\ u \in last[t].saw
        /\ last[u].code \in {DuplicateKeyError, KeyNotFoundError, CapacityExceededError}
        /\ last[t].op \in {"create", "delete"} /\ last[t].code = Ok
        /\ lock = None

\* C20: a pass of a background loop that fails does not end the loop: while the
\* handle lives, both loops keep running their passes, and no create, read or
\* delete raises because a pass failed.
C20_loops_survive ==
    ~crashed => \A l \in Loops : periodic[l] = "running"

\* C21: the exclusivity lock goes from held to released when the handle is torn
\* down (the process exits or the handle is closed), the pending writes being
\* committed first: in every step that ends the handle's hold on the file lock
\* the committed table becomes the table the handle has written, and the lock
\* is free afterwards, so that an open of the file by another process succeeds.
C21_release_after_commit ==
    [][ (Live /\ ~Live')
        => /\ disk' = table
           /\ system_lock'[TheFile] = NoHandle ]_vars

====
